---- MODULE Spec2Model ----
(***************************************************************************)
(* StockWebApp: the bootstrap (app.py), the cache population and access    *)
(* layer (backend/data.py) and the three PyLinkJS handlers                  *)
(* (backend/handlers.py).                                                   *)
(*                                                                          *)
(* Dates are day numbers.  A cell of the Date column is [ok, d]: ok is      *)
(* FALSE for text pandas cannot parse (and for NaT, which it is coerced     *)
(* to).  A cell of the Close column is [k, v] with k "num" (a finite        *)
(* number v), "nan" (blank), "inf" or "txt" (non-numeric text).             *)
(* What a handler sends with jsc.eval_js_code is kept token by token: a     *)
(* JavaScript null, a quoted string, a number or a bare identifier.         *)
(***************************************************************************)
EXTENDS Integers, Sequences, FiniteSets, TLC

VARIABLES
    files,       \* DATA_DIR: ticker -> the content of <ticker>.csv
    pc,          \* main()'s position: "download", "register", "start", "run"
    dl,          \* download_data's locals: loop index, phase, fetched frame
    attempts,    \* the tickers yf.download was called for, in call order
    registered,  \* PyLinkJS.ready/get_plot_data/get_stat_value are assigned
    served,      \* some handler has been invoked in this execution
    call,        \* the handler call in progress with what it emitted, or idle
    applied      \* a direct application of filter_by_date (FilterSpec only)

vars == <<files, pc, dl, attempts, registered, served, call, applied>>

(* ------------------------------ bounds --------------------------------- *)

\* Request windows range over the days 1..MaxDay (and a malformed string).
MaxDay == 3
\* Number of rows of the regular daily series Series(MaxRows).
MaxRows == 3

(* ------------------------------ config.py ------------------------------ *)

TICKERS == <<"AAPL", "MSFT", "IBM">>

TickerSet == {TICKERS[i] : i \in 1..Len(TICKERS)}

(* ------------------------------ values --------------------------------- *)

D(n) == [ok |-> TRUE, d |-> n]
NaT == [ok |-> FALSE, d |-> 0]

Num(v) == [k |-> "num", v |-> v]
NaN == [k |-> "nan", v |-> 0]
Inf == [k |-> "inf", v |-> 0]
Txt == [k |-> "txt", v |-> 0]

Row(d, c) == [Date |-> d, Close |-> c]

\* pd.DataFrame(): no columns, no rows.
EmptyFrame == [cols |-> {}, rows |-> <<>>]

Frame(rows) == [cols |-> {"Date", "Close"}, rows |-> rows]

\* DataFrame.empty: an axis of length 0.
IsEmpty(df) == df.cols = {} \/ df.rows = <<>>

NoFile == [kind |-> "none", df |-> EmptyFrame]
\* A file opened for writing and not written yet: zero bytes.
ZeroByte == [kind |-> "zero", df |-> EmptyFrame]
Csv(df) == [kind |-> "csv", df |-> df]

\* Python: a call returns a value or raises.
Ret(v) == [raised |-> FALSE, exc |-> "", val |-> v]
Raise(e) == [raised |-> TRUE, exc |-> e, val |-> EmptyFrame]

\* JavaScript tokens of an emitted call.  A number is p/q + sg*sqrt(r/s).
JsNull == [js |-> "null", text |-> "", day |-> 0,
           p |-> 0, q |-> 1, sg |-> 0, r |-> 0, s |-> 1]
JsString(text, day) == [JsNull EXCEPT !.js = "string", !.text = text, !.day = day]
JsIdent(text) == [JsNull EXCEPT !.js = "ident", !.text = text]
JsNumber(p, q, sg, r, s) ==
    [JsNull EXCEPT !.js = "number", !.p = p, !.q = q, !.sg = sg, !.r = r, !.s = s]

(* --------------------------- cached contents --------------------------- *)

Price(i) == 100 + ((2 * (i - 1)) % 3)

\* A regular daily series: days 1..n, closes 100, 102, 101, 100, ...
Series(n) == Frame([i \in 1..n |-> Row(D(i), Num(Price(i)))])

FrameNan == Frame(<<Row(D(1), Num(100)), Row(D(2), NaN), Row(D(3), Num(104))>>)
FrameOne == Frame(<<Row(D(2), Num(104))>>)
FrameTxt == Frame(<<Row(D(1), Txt), Row(D(2), Num(100))>>)
FrameHeader == Frame(<<>>)
FrameBad == Frame(<<Row(NaT, Num(100)), Row(D(2), Inf), Row(D(3), Num(98))>>)
FrameNoDate == [cols |-> {"Close"}, rows |-> <<Row(NaT, Num(100))>>]
FrameWide == Frame(<<Row(D(1), Num(100)), Row(D(32), Num(105))>>)
FrameNoClose == [cols |-> {"Date"}, rows |-> <<Row(D(1), NaN), Row(D(3), NaN)>>]
FrameAllBad == Frame(<<Row(NaT, Num(100))>>)
FrameLate == Frame(<<Row(D(15), Num(100)), Row(D(41), Num(110))>>)
FrameFetched == Frame(<<Row(D(2), Num(104)), Row(D(3), Num(106))>>)

\* What DATA_DIR may hold for a ticker when main() starts (the directory
\* outlives the process).
InitialCache(t) ==
    CASE t = "AAPL" -> {NoFile, Csv(Series(MaxRows)), Csv(FrameNan),
                        Csv(FrameOne), Csv(FrameTxt)}
      [] t = "MSFT" -> {NoFile, Csv(FrameHeader), Csv(FrameBad),
                        Csv(FrameNoDate), Csv(FrameWide)}
      [] OTHER -> {NoFile, Csv(FrameNoClose), Csv(FrameAllBad), Csv(FrameLate)}

\* What yf.download may return.
FetchFrames == {EmptyFrame, FrameFetched}

Malformed == NaT
ReqDates == {D(n) : n \in 1..MaxDay} \cup {Malformed}
StatNames == {"mean", "median", "std", "STD", "mode"}

(* ------------------------------- data.py ------------------------------- *)

load_data(ticker) ==
    LET f == files[ticker] IN
    IF f.kind = "none" THEN Ret(EmptyFrame)
    ELSE IF f.kind = "zero" THEN Raise("EmptyDataError")
    ELSE IF "Date" \notin f.df.cols THEN Raise("ValueError")
    ELSE Ret(f.df)

\* InRange with the upper bound left out of the window.
InRangeExclusive(r, start, end) ==
    r.Date.ok /\ r.Date.d >= start.d /\ r.Date.d < end.d

\* The mask of filter_by_date on one row; a NaT compares False.
InRange(r, start, end) == r.Date.ok /\ r.Date.d >= start.d /\ r.Date.d <= end.d

filter_by_date(df, start, end) ==
    IF "Date" \notin df.cols \/ IsEmpty(df) THEN Ret(EmptyFrame)
    ELSE IF ~start.ok \/ ~end.ok THEN Raise("ValueError")
    ELSE LET Keep(r) == InRange(r, start, end)
         IN Ret([cols |-> df.cols, rows |-> SelectSeq(df.rows, Keep)])

(* ----------------------------- handlers.py ----------------------------- *)

DefaultSpan == 30

Emitted(msg) == [raised |-> FALSE, emitted |-> <<msg>>]
Propagated == [raised |-> TRUE, emitted |-> <<>>]

exists(t) == files[t].kind # "none"

RECURSIVE Pool(_)
Pool(ts) ==
    IF ts = <<>> THEN Ret(<<>>)
    ELSE LET ld == load_data(Head(ts)) IN
         IF ld.raised THEN ld
         ELSE LET rest == Pool(Tail(ts)) IN
              IF rest.raised THEN rest
              ELSE IF IsEmpty(ld.val) THEN rest
              ELSE Ret([i \in 1..Len(ld.val.rows) |-> ld.val.rows[i].Date] \o rest.val)

MaxOf(S) == CHOOSE x \in S : \A y \in S : y <= x
MinOf(S) == CHOOSE x \in S : \A y \in S : x <= y

\* str() of default_start / default_end inside the quotes of the f-string.
PyStrDate(v) ==
    IF v.kind = "date" THEN JsString("%Y-%m-%d", v.d)
    ELSE JsString(v.kind, 0)

\* default_start, default_end.  all_dates is tested before it is coerced: a
\* pool of unparsable dates only is not empty, its max() and min() are NaT,
\* NaT.date() and NaT - Timedelta are NaT, and max(NaT, NaT) is NaT.
DefaultRange(all_dates) ==
    IF all_dates = <<>>
    THEN [start |-> [kind |-> "None", d |-> 0], end |-> [kind |-> "None", d |-> 0]]
    ELSE LET valid == {all_dates[i].d : i \in {j \in DOMAIN all_dates : all_dates[j].ok}}
         IN IF valid = {}
            THEN [start |-> [kind |-> "NaT", d |-> 0], end |-> [kind |-> "NaT", d |-> 0]]
            ELSE LET default_end == MaxOf(valid)
                     default_start == MaxOf({MinOf(valid), default_end - DefaultSpan})
                 IN [start |-> [kind |-> "date", d |-> default_start],
                     end |-> [kind |-> "date", d |-> default_end]]

ready ==
    LET tickers == SelectSeq(TICKERS, exists)
        pool == Pool(tickers)
    IN IF pool.raised THEN Propagated
       ELSE LET w == DefaultRange(pool.val)
            IN Emitted([fn |-> "initApp", tickers |-> tickers,
                        defaultStart |-> PyStrDate(w.start),
                        defaultEnd |-> PyStrDate(w.end)])

PlotError(msg) ==
    [fn |-> "plotStockData", x |-> <<>>, y |-> <<>>, error |-> JsString(msg, 0)]

\* repr() of an element of y.
PyReprClose(c) ==
    CASE c.k = "num" -> JsNumber(c.v, 1, 0, 0, 1)
      [] c.k = "inf" -> JsIdent("inf")
      [] OTHER -> JsIdent("None")

PlotSeries(rows) ==
    IF \E i \in DOMAIN rows : rows[i].Close.k = "txt" THEN Propagated
    ELSE Emitted([fn |-> "plotStockData",
                  x |-> [i \in 1..Len(rows) |-> JsString("%m/%d/%Y", rows[i].Date.d)],
                  y |-> [i \in 1..Len(rows) |-> PyReprClose(rows[i].Close)],
                  error |-> JsNull])

\* PlotFiltered without the test for an empty slice.
PlotFilteredNoEmptyCheck(filtered) ==
    IF "Close" \notin filtered.cols
    THEN Emitted(PlotError("No data for selected range"))
    ELSE PlotSeries(filtered.rows)

PlotFiltered(filtered) ==
    IF IsEmpty(filtered) \/ "Close" \notin filtered.cols
    THEN Emitted(PlotError("No data for selected range"))
    ELSE PlotSeries(filtered.rows)

get_plot_data(ticker, start, end) ==
    LET ld == load_data(ticker) IN
    IF ld.raised THEN Propagated
    ELSE IF IsEmpty(ld.val) THEN Emitted(PlotError("No data available"))
    ELSE LET fl == filter_by_date(ld.val, start, end) IN
         IF fl.raised THEN Propagated ELSE PlotFiltered(fl.val)

StatLine(stat, upper, lower, error) ==
    [fn |-> "drawStatLine", stat |-> stat, upper |-> upper, lower |-> lower,
     error |-> error]

\* Lower without the call of str.lower.
LowerIdentity(stat) == stat

Lower(stat) == IF stat = "STD" THEN "std" ELSE stat

\* pd.to_numeric(errors="coerce"), inf -> NaN, dropna.
IsPrice(c) == c.k = "num"

Prices(filtered) ==
    IF "Close" \notin filtered.cols THEN <<>>
    ELSE LET closes == [i \in 1..Len(filtered.rows) |-> filtered.rows[i].Close]
             kept == SelectSeq(closes, IsPrice)
         IN [i \in 1..Len(kept) |-> kept[i].v]

RECURSIVE SumSeq(_)
SumSeq(xs) == IF xs = <<>> THEN 0 ELSE Head(xs) + SumSeq(Tail(xs))

RECURSIVE SumSq(_)
SumSq(xs) == IF xs = <<>> THEN 0 ELSE Head(xs) * Head(xs) + SumSq(Tail(xs))

RECURSIVE Insert(_, _)
Insert(x, xs) ==
    IF xs = <<>> THEN <<x>>
    ELSE IF x <= Head(xs) THEN <<x>> \o xs
    ELSE <<Head(xs)>> \o Insert(x, Tail(xs))

RECURSIVE SortedSeq(_)
SortedSeq(xs) == IF xs = <<>> THEN <<>> ELSE Insert(Head(xs), SortedSeq(Tail(xs)))

Mean(price) == JsNumber(SumSeq(price), Len(price), 0, 0, 1)

Median(price) ==
    LET srt == SortedSeq(price)
        n == Len(price)
    IN IF n % 2 = 1 THEN JsNumber(srt[(n + 1) \div 2], 1, 0, 0, 1)
       ELSE JsNumber(srt[n \div 2] + srt[n \div 2 + 1], 2, 0, 0, 1)

\* mean + sg * std, std the sample deviation (ddof = 1).
Band(price, sg) ==
    LET n == Len(price)
        sum == SumSeq(price)
    IN JsNumber(sum, n, sg, n * SumSq(price) - sum * sum, n * (n - 1))

\* StatEngine with the single-point test made before the statistic is chosen.
StatEngineSinglePointFirst(price, stat) ==
    LET st == Lower(stat) IN
    IF Len(price) = 1
    THEN StatLine(st, JsNull, JsNull, JsString("Only one price point", 0))
    ELSE IF st = "mean" THEN StatLine("mean", Mean(price), JsNull, JsNull)
    ELSE IF st = "median" THEN StatLine("median", Median(price), JsNull, JsNull)
    ELSE IF st = "std" THEN StatLine("std", Band(price, 1), Band(price, -1), JsNull)
    ELSE StatLine(stat, JsNull, JsNull, JsNull)

StatEngine(price, stat) ==
    LET st == Lower(stat) IN
    IF st = "mean" THEN StatLine("mean", Mean(price), JsNull, JsNull)
    ELSE IF st = "median" THEN StatLine("median", Median(price), JsNull, JsNull)
    ELSE IF st = "std"
         THEN IF Len(price) = 1
              THEN StatLine("std", JsNull, JsNull, JsString("Only one price point", 0))
              ELSE StatLine("std", Band(price, 1), Band(price, -1), JsNull)
    ELSE StatLine(stat, JsNull, JsNull, JsNull)

StatFiltered(filtered, stat) ==
    LET price == Prices(filtered) IN
    IF price = <<>> THEN Emitted(StatLine(stat, JsNull, JsNull, JsNull))
    ELSE Emitted(StatEngine(price, stat))

get_stat_value(ticker, start, end, stat) ==
    LET ld == load_data(ticker) IN
    IF ld.raised THEN Propagated
    ELSE IF IsEmpty(ld.val) THEN Emitted(StatLine(stat, JsNull, JsNull, JsNull))
    ELSE LET fl == filter_by_date(ld.val, start, end) IN
         IF fl.raised THEN Propagated ELSE StatFiltered(fl.val, stat)

(* ------------------------------- state --------------------------------- *)

Idle == [fn |-> "idle", ticker |-> "", start |-> NaT, end |-> NaT, stat |-> "",
         raised |-> FALSE, emitted |-> <<>>]

Called(fn, ticker, start, end, stat, out) ==
    [fn |-> fn, ticker |-> ticker, start |-> start, end |-> end, stat |-> stat,
     raised |-> out.raised, emitted |-> out.emitted]

NoLocals == [idx |-> 0, phase |-> "none", df |-> EmptyFrame, last |-> "none"]

NotApplied == [df |-> EmptyFrame, start |-> NaT, end |-> NaT, done |-> FALSE,
               out |-> Ret(EmptyFrame)]

Init ==
    /\ files \in {f \in [TickerSet -> UNION {InitialCache(t) : t \in TickerSet}] :
                    \A t \in TickerSet : f[t] \in InitialCache(t)}
    /\ pc = "download"
    /\ dl = [idx |-> 1, phase |-> "fetch", df |-> EmptyFrame, last |-> "none"]
    /\ attempts = <<>>
    /\ registered = FALSE
    /\ served = FALSE
    /\ call = Idle
    /\ applied = NotApplied

(* ----------------------- data.py: download_data ------------------------ *)

\* AfterException with the exception leaving the loop.
AfterExceptionAborts(idx) == Len(TICKERS) + 1

\* except Exception: print, and the for loop goes on with the next ticker.
AfterException(idx) == idx + 1

Looping == pc = "download" /\ dl.idx <= Len(TICKERS)

\* yf.download raises.
FetchRaises ==
    /\ Looping /\ dl.phase = "fetch"
    /\ attempts' = Append(attempts, TICKERS[dl.idx])
    /\ dl' = [dl EXCEPT !.idx = AfterException(dl.idx), !.last = "raise"]
    /\ UNCHANGED <<files, pc, registered, served, call, applied>>

\* yf.download returns df: an empty one is skipped, another is written.
FetchReturns ==
    /\ Looping /\ dl.phase = "fetch"
    /\ attempts' = Append(attempts, TICKERS[dl.idx])
    /\ \E df \in FetchFrames :
         IF IsEmpty(df)
         THEN /\ dl' = [dl EXCEPT !.idx = dl.idx + 1, !.last = "empty"]
              /\ UNCHANGED files
         ELSE /\ dl' = [dl EXCEPT !.phase = "write", !.df = df]
              /\ files' = [files EXCEPT ![TICKERS[dl.idx]] = ZeroByte]
    /\ UNCHANGED <<pc, registered, served, call, applied>>

\* df.to_csv completes.
WriteDone ==
    /\ Looping /\ dl.phase = "write"
    /\ files' = [files EXCEPT ![TICKERS[dl.idx]] = Csv(dl.df)]
    /\ dl' = [dl EXCEPT !.idx = dl.idx + 1, !.phase = "fetch", !.df = EmptyFrame,
                        !.last = "written"]
    /\ UNCHANGED <<pc, attempts, registered, served, call, applied>>

\* df.to_csv raises after opening the file.
WriteRaises ==
    /\ Looping /\ dl.phase = "write"
    /\ dl' = [dl EXCEPT !.idx = AfterException(dl.idx), !.phase = "fetch",
                        !.df = EmptyFrame, !.last = "raise"]
    /\ UNCHANGED <<files, pc, attempts, registered, served, call, applied>>

DownloadReturns ==
    /\ pc = "download" /\ dl.idx > Len(TICKERS)
    /\ pc' = "register"
    /\ dl' = NoLocals
    /\ UNCHANGED <<files, attempts, registered, served, call, applied>>

DownloadNext ==
    \/ FetchRaises
    \/ FetchReturns
    \/ WriteDone
    \/ WriteRaises
    \/ DownloadReturns

(* ------------------------------- app.py -------------------------------- *)

RegisterHandlers ==
    /\ pc = "register"
    /\ registered' = TRUE
    /\ pc' = "start"
    /\ UNCHANGED <<files, dl, attempts, served, call, applied>>

RunServer ==
    /\ pc = "start"
    /\ pc' = "run"
    /\ UNCHANGED <<files, dl, attempts, registered, served, call, applied>>

\* CanInvoke with the server started before download_data has run.
CanInvokeAnytime == TRUE

\* The transport invokes a handler only once the server runs with the
\* handlers registered.
CanInvoke == pc = "run" /\ registered

CallReady ==
    /\ CanInvoke /\ call = Idle
    /\ call' = Called("ready", "", NaT, NaT, "", ready)
    /\ served' = TRUE
    /\ UNCHANGED <<files, pc, dl, attempts, registered, applied>>

CallPlot ==
    /\ CanInvoke /\ call = Idle
    /\ \E t \in TickerSet, start \in ReqDates, end \in ReqDates :
         call' = Called("get_plot_data", t, start, end, "",
                        get_plot_data(t, start, end))
    /\ served' = TRUE
    /\ UNCHANGED <<files, pc, dl, attempts, registered, applied>>

CallStat ==
    /\ CanInvoke /\ call = Idle
    /\ \E t \in TickerSet, start \in ReqDates, end \in ReqDates, stat \in StatNames :
         call' = Called("get_stat_value", t, start, end, stat,
                        get_stat_value(t, start, end, stat))
    /\ served' = TRUE
    /\ UNCHANGED <<files, pc, dl, attempts, registered, applied>>

\* The call is over: what it emitted is with the browser.
Deliver ==
    /\ call # Idle
    /\ call' = Idle
    /\ UNCHANGED <<files, pc, dl, attempts, registered, served, applied>>

Next ==
    \/ DownloadNext
    \/ RegisterHandlers
    \/ RunServer
    \/ CallReady
    \/ CallPlot
    \/ CallStat
    \/ Deliver

Spec == Init /\ [][Next]_vars

\* download_data on its own: the loop is the only thread, so it keeps
\* stepping while it can.
DownloadSpec == Init /\ [][DownloadNext]_vars /\ WF_vars(DownloadNext)

(* -------------------- filter_by_date applied directly ------------------ *)

FilterFrames ==
    {EmptyFrame, Series(MaxRows), FrameNan, FrameOne, FrameTxt, FrameHeader,
     FrameBad, FrameNoDate, FrameWide, FrameNoClose, FrameAllBad, FrameLate,
     FrameFetched}

InitFilter ==
    /\ files = [t \in TickerSet |-> NoFile]
    /\ pc = "pure"
    /\ dl = NoLocals
    /\ attempts = <<>>
    /\ registered = FALSE
    /\ served = FALSE
    /\ call = Idle
    /\ applied \in {[NotApplied EXCEPT !.df = df, !.start = start, !.end = end] :
                      df \in FilterFrames, start \in ReqDates, end \in ReqDates}

FilterApply ==
    /\ pc = "pure" /\ ~applied.done
    /\ applied' = [applied EXCEPT
                     !.done = TRUE,
                     !.out = filter_by_date(applied.df, applied.start, applied.end)]
    /\ UNCHANGED <<files, pc, dl, attempts, registered, served, call>>

FilterSpec == InitFilter /\ [][FilterApply]_vars

(* ------------------------------ properties ----------------------------- *)

\* The rows of df whose date parses and lies in [start, end].
WindowIdx(df, start, end) ==
    {i \in DOMAIN df.rows :
        /\ "Date" \in df.cols
        /\ df.rows[i].Date.ok
        /\ start.d <= df.rows[i].Date.d
        /\ df.rows[i].Date.d <= end.d}

\* The cached series of a ticker has rows ("no cache file or no rows" otherwise).
HasRows(t) == files[t].kind = "csv" /\ "Date" \in files[t].df.cols
              /\ files[t].df.rows # <<>>

NoSeries(t) == files[t].kind = "none"
               \/ (files[t].kind = "csv" /\ "Date" \in files[t].df.cols
                   /\ files[t].df.rows = <<>>)

\* n: the valid (numeric, finite) prices of the ticker in the window.
ValidCount(t, start, end) ==
    IF HasRows(t) /\ start.ok /\ end.ok /\ "Close" \in files[t].df.cols
    THEN Cardinality({i \in WindowIdx(files[t].df, start, end) :
                        files[t].df.rows[i].Close.k = "num"})
    ELSE 0

\* The statistic a name asks for, names compared without regard to case.
StatOf(stat) ==
    CASE stat \in {"mean"} -> "mean"
      [] stat \in {"median"} -> "median"
      [] stat \in {"std", "STD"} -> "std"
      [] OTHER -> "unknown"

IsHandlerCall == call.fn \in {"ready", "get_plot_data", "get_stat_value"}

\* C1: every handler invocation raises nothing to its caller and emits
\* exactly one response.
C1_NoExceptionOneResponse ==
    IsHandlerCall => (~call.raised /\ Len(call.emitted) = 1)

\* What the code does instead of C1: a handler raises exactly when a cache
\* file it reads cannot be parsed (zero bytes, no Date column), when a
\* start or end string is malformed and the loaded series has rows, or when
\* a plotted Close is non-numeric text; otherwise it emits one response.
Unreadable(t) ==
    files[t].kind = "zero" \/ (files[t].kind = "csv" /\ "Date" \notin files[t].df.cols)

C1_RaisesExactlyWhen ==
    IsHandlerCall =>
        /\ Len(call.emitted) = (IF call.raised THEN 0 ELSE 1)
        /\ call.raised <=>
              IF call.fn = "ready" THEN \E t \in TickerSet : Unreadable(t)
              ELSE \/ Unreadable(call.ticker)
                   \/ HasRows(call.ticker) /\ (~call.start.ok \/ ~call.end.ok)
                   \/ /\ call.fn = "get_plot_data" /\ HasRows(call.ticker)
                      /\ call.start.ok /\ call.end.ok
                      /\ "Close" \in files[call.ticker].df.cols
                      /\ \E i \in WindowIdx(files[call.ticker].df, call.start, call.end) :
                            files[call.ticker].df.rows[i].Close.k = "txt"

\* C2: a get_stat_value response carries an error iff the statistic is std
\* and exactly one valid price is in the window; the response is then
\* (null, null, "Only one price point").
C2_ErrorOnlyStdSinglePoint ==
    (call.fn = "get_stat_value" /\ ~call.raised) =>
        /\ Len(call.emitted) = 1
        /\ LET m == call.emitted[1]
               n == ValidCount(call.ticker, call.start, call.end)
           IN /\ (m.error.js # "null") <=> (StatOf(call.stat) = "std" /\ n = 1)
              /\ (m.error.js # "null") =>
                    /\ m.upper.js = "null"
                    /\ m.lower.js = "null"
                    /\ m.error.js = "string"
                    /\ m.error.text = "Only one price point"

C2_Witness ==
    /\ call.fn = "get_stat_value" /\ ~call.raised
    /\ call.stat = "std"
    /\ ValidCount(call.ticker, call.start, call.end) = 1
    /\ call.emitted[1].error.text = "Only one price point"

ShapeOf(m) ==
    CASE m.upper.js = "number" /\ m.lower.js = "null" /\ m.error.js = "null" -> "single"
      [] m.upper.js = "number" /\ m.lower.js = "number" /\ m.error.js = "null" -> "band"
      [] m.upper.js = "null" /\ m.lower.js = "null" /\ m.error.js = "string" -> "error"
      [] m.upper.js = "null" /\ m.lower.js = "null" /\ m.error.js = "null" -> "empty"
      [] OTHER -> "mixed"

ShapeFor(stat, n) ==
    IF StatOf(stat) \in {"mean", "median"} /\ n >= 1 THEN "single"
    ELSE IF StatOf(stat) = "std" /\ n >= 2 THEN "band"
    ELSE IF StatOf(stat) = "std" /\ n = 1 THEN "error"
    ELSE "empty"

\* C3: a get_stat_value response has exactly the shape the statistic and the
\* number of valid prices determine: single-value, band, error or empty.
C3_OneShapePerResponse ==
    (call.fn = "get_stat_value" /\ ~call.raised) =>
        /\ Len(call.emitted) = 1
        /\ ShapeOf(call.emitted[1]) =
              ShapeFor(call.stat, ValidCount(call.ticker, call.start, call.end))

C3_Witness ==
    /\ call.fn = "get_stat_value" /\ ~call.raised
    /\ call.stat = "STD"
    /\ ValidCount(call.ticker, call.start, call.end) >= 2
    /\ ShapeOf(call.emitted[1]) = "band"

IsPlotError(m, text) ==
    /\ m.fn = "plotStockData" /\ m.x = <<>> /\ m.y = <<>>
    /\ m.error.js = "string" /\ m.error.text = text

\* C4: get_plot_data answers "No data available" when the loaded series is
\* empty, whatever the window; "No data for selected range" when the slice
\* is empty or has no Close; an error comes only with empty x and y.
C4_PlotFailures ==
    (call.fn = "get_plot_data") =>
        /\ NoSeries(call.ticker) =>
              /\ ~call.raised /\ Len(call.emitted) = 1
              /\ IsPlotError(call.emitted[1], "No data available")
        /\ ( /\ HasRows(call.ticker) /\ call.start.ok /\ call.end.ok
             /\ \/ WindowIdx(files[call.ticker].df, call.start, call.end) = {}
                \/ "Close" \notin files[call.ticker].df.cols ) =>
              /\ ~call.raised /\ Len(call.emitted) = 1
              /\ IsPlotError(call.emitted[1], "No data for selected range")
        /\ \A i \in DOMAIN call.emitted :
              LET m == call.emitted[i] IN
              /\ (m.error.js # "null") => (m.x = <<>> /\ m.y = <<>>)
              /\ (m.x # <<>> \/ m.y # <<>>) => m.error.js = "null"
              /\ (m.error.js # "null") =>
                    IF NoSeries(call.ticker)
                    THEN m.error.text = "No data available"
                    ELSE m.error.text = "No data for selected range"

C4_Witness ==
    /\ call.fn = "get_plot_data" /\ ~call.raised
    /\ HasRows(call.ticker) /\ call.start.ok /\ call.end.ok
    /\ "Close" \in files[call.ticker].df.cols
    /\ WindowIdx(files[call.ticker].df, call.start, call.end) = {}
    /\ IsPlotError(call.emitted[1], "No data for selected range")

\* C5: a successful plot has one x and one y per cached row in the window,
\* in ascending date order, y[i] the close of the row dated x[i], an absent
\* close being a null at its index.
C5_PlotAligned ==
    (call.fn = "get_plot_data" /\ ~call.raised /\ call.emitted[1].error.js = "null") =>
        LET m == call.emitted[1]
            df == files[call.ticker].df
            idx == WindowIdx(df, call.start, call.end)
        IN /\ Len(m.x) = Cardinality(idx)
           /\ Len(m.y) = Len(m.x)
           /\ \A i \in 1..(Len(m.x) - 1) : m.x[i].day < m.x[i + 1].day
           /\ \A i \in DOMAIN m.x :
                 \E j \in idx :
                    /\ df.rows[j].Date.d = m.x[i].day
                    /\ df.rows[j].Close.k = "num" =>
                          (m.y[i].js = "number" /\ m.y[i].p = df.rows[j].Close.v
                           /\ m.y[i].q = 1 /\ m.y[i].sg = 0)
                    /\ df.rows[j].Close.k = "nan" => m.y[i].js = "null"

\* What the code does instead of C5: the same alignment, an absent close
\* being the Python token None (no JavaScript null) at its index.
C5_AlignedWithNoneToken ==
    (call.fn = "get_plot_data" /\ ~call.raised /\ call.emitted[1].error.js = "null") =>
        LET m == call.emitted[1]
            df == files[call.ticker].df
            idx == WindowIdx(df, call.start, call.end)
        IN /\ Len(m.x) = Cardinality(idx)
           /\ Len(m.y) = Len(m.x)
           /\ \A i \in 1..(Len(m.x) - 1) : m.x[i].day < m.x[i + 1].day
           /\ \A i \in DOMAIN m.x :
                 \E j \in idx :
                    /\ df.rows[j].Date.d = m.x[i].day
                    /\ df.rows[j].Close.k = "num" =>
                          (m.y[i].js = "number" /\ m.y[i].p = df.rows[j].Close.v
                           /\ m.y[i].q = 1 /\ m.y[i].sg = 0)
                    /\ df.rows[j].Close.k = "nan" =>
                          (m.y[i].js = "ident" /\ m.y[i].text = "None")

\* A ticker whose cached series exists and is non-empty.
Available(t) == files[t].kind = "csv" /\ ~IsEmpty(files[t].df)

\* C6: ready lists a configured ticker iff its cached series exists and is
\* non-empty at the time of the call, in registry order.
C6_ListedIffNonEmpty ==
    (call.fn = "ready" /\ ~call.raised) =>
        call.emitted[1].tickers = SelectSeq(TICKERS, Available)

\* What the code does instead of C6: a ticker is listed iff its file exists.
C6_ListedIffFileExists ==
    (call.fn = "ready" /\ ~call.raised) =>
        LET Exists(t) == files[t].kind # "none"
        IN call.emitted[1].tickers = SelectSeq(TICKERS, Exists)

\* The dates of all non-empty available series.
DatePool ==
    UNION {{files[t].df.rows[i].Date.d :
              i \in {j \in DOMAIN files[t].df.rows : files[t].df.rows[j].Date.ok}} :
           t \in {u \in TickerSet : Available(u)}}

\* C7: ready's default window: both dates null when the pool is empty,
\* else defaultEnd = max(pool), defaultStart = max(min(pool), defaultEnd - 30).
C7_DefaultWindow ==
    (call.fn = "ready" /\ ~call.raised) =>
        LET m == call.emitted[1] IN
        IF DatePool = {}
        THEN m.defaultStart.js = "null" /\ m.defaultEnd.js = "null"
        ELSE /\ m.defaultEnd = JsString("%Y-%m-%d", MaxOf(DatePool))
             /\ m.defaultStart =
                   JsString("%Y-%m-%d",
                            IF MinOf(DatePool) >= MaxOf(DatePool) - 30
                            THEN MinOf(DatePool) ELSE MaxOf(DatePool) - 30)

\* The part of C7 the code does satisfy: the arithmetic of a non-empty pool
\* (for instance 1..32 and 15..41 give 11..41).
C7_WindowOfNonEmptyPool ==
    (call.fn = "ready" /\ ~call.raised /\ DatePool # {}) =>
        LET m == call.emitted[1] IN
        /\ m.defaultEnd = JsString("%Y-%m-%d", MaxOf(DatePool))
        /\ m.defaultStart.js = "string" /\ m.defaultStart.text = "%Y-%m-%d"
        /\ m.defaultStart.day <= m.defaultEnd.day
        /\ (MaxOf(DatePool) - MinOf(DatePool) <= 30) => m.defaultStart.day = MinOf(DatePool)
        /\ (MaxOf(DatePool) - MinOf(DatePool) > 30) =>
              m.defaultEnd.day - m.defaultStart.day = 30

\* C8: filter_by_date returns exactly the rows dated within [start, end],
\* both bounds included, in their order; rows with an unparsable date are
\* left out; start > end, an empty input or one without Date give an empty
\* series and no error.
C8_FilterInclusive ==
    applied.done =>
        LET df == applied.df
            out == applied.out
            idx == WindowIdx(df, applied.start, applied.end)
        IN /\ ("Date" \notin df.cols \/ df.rows = <<>> \/ df.cols = {}) =>
                 (~out.raised /\ out.val.rows = <<>>)
           /\ (applied.start.ok /\ applied.end.ok) =>
                 /\ ~out.raised
                 /\ Len(out.val.rows) = Cardinality(idx)
                 /\ \E f \in [1..Len(out.val.rows) -> idx] :
                       /\ \A a, b \in 1..Len(out.val.rows) : a < b => f[a] < f[b]
                       /\ \A a \in 1..Len(out.val.rows) : out.val.rows[a] = df.rows[f[a]]
                 /\ (applied.start.d > applied.end.d) => out.val.rows = <<>>

C8_Witness ==
    /\ applied.done /\ ~applied.out.raised
    /\ applied.start.ok /\ applied.end.ok /\ applied.start.d < applied.end.d
    /\ \E i \in DOMAIN applied.df.rows : ~applied.df.rows[i].Date.ok
    /\ \E i \in DOMAIN applied.out.val.rows :
          applied.out.val.rows[i].Date.d = applied.end.d
    /\ \E i \in DOMAIN applied.out.val.rows :
          applied.out.val.rows[i].Date.d = applied.start.d
    /\ Len(applied.out.val.rows) < Len(applied.df.rows)

\* download_data has called yf.download for the first tickers of the list,
\* once each and in list order, and for all of them once it has returned.
C9_EveryTickerOnce ==
    /\ Len(attempts) <= Len(TICKERS)
    /\ attempts = SubSeq(TICKERS, 1, Len(attempts))
    /\ pc # "download" => attempts = TICKERS

\* A step changes a ticker's cache file only for the ticker of the current
\* iteration, whose fetch returned non-empty data.
C9_WritesOnlyFetched ==
    \A t \in TickerSet :
        files'[t] # files[t] =>
            /\ pc = "download" /\ dl.idx \in 1..Len(TICKERS)
            /\ t = TICKERS[dl.idx]
            /\ Len(attempts') >= dl.idx /\ attempts'[dl.idx] = t
            /\ \/ dl.phase = "fetch" /\ dl'.phase = "write" /\ ~IsEmpty(dl'.df)
               \/ dl.phase = "write" /\ ~IsEmpty(dl.df)

\* C9: in download_data an exception or an empty result for one ticker never
\* aborts the batch: every ticker is fetched exactly once, in list order,
\* the loop terminates, and only the cache file of a ticker whose fetch
\* returned non-empty data is written.
C9_BatchNeverAborted ==
    /\ []C9_EveryTickerOnce
    /\ [][C9_WritesOnlyFetched]_vars
    /\ <>(pc # "download")

C9_Witness ==
    /\ pc = "download" /\ dl.idx = Len(TICKERS)
    /\ dl.last = "raise" /\ dl.phase = "write"
    /\ attempts = TICKERS

\* C10: a handler is invoked only after download_data has returned, the
\* handlers are registered and the server runs, hence never while a cache
\* file is being written; and no cache file changes once a handler has run.
C10_DownloadBeforeServing ==
    [][ /\ (call.fn = "idle" /\ call'.fn # "idle") =>
              /\ pc = "run" /\ registered
              /\ dl = NoLocals
              /\ attempts = TICKERS
        /\ served => files' = files ]_vars

C10_Witness ==
    /\ served /\ call.fn = "get_plot_data" /\ ~call.raised
    /\ files[call.ticker] = Csv(FrameFetched)
    /\ call.emitted[1].error.js = "null"

====
